---- MODULE Spec2Model ----
(***************************************************************************)
(* A model of abPedestrianTool.py (geo-mart/ABPedSim): the preparation of  *)
(* the start configuration of a pedestrian simulation.                     *)
(*                                                                         *)
(*   findStations          gateway search with box expansion               *)
(*   factoring             modal split decision tree                       *)
(*   randomPoint           start point near a gateway                      *)
(*   defineStartVariables  the pipeline writing the four output files      *)
(*   execute               the external simulation process                 *)
(*   startSimulation, startSimulationTarget   the two event handlers       *)
(*                                                                         *)
(* Geometry.  Station coordinates are integers (metres).  A box that has   *)
(* been buffered is kept as the original rectangle plus the accumulated    *)
(* buffer radius r: a point intersects it when its distance to the         *)
(* rectangle is at most r.  Start points are kept in tenths of a metre so  *)
(* that the 0.3 separation is the integer 3.  Probabilities are kept in    *)
(* percent (0.55 is 55).                                                   *)
(***************************************************************************)
EXTENDS Integers, Sequences, FiniteSets, TLC

VARIABLES
    \* the input layers (the shapefiles of lines 19-27), in file order
    bahnStations, busStations, radStations, parkStations, buildings,
    \* the arguments of the current call: [box, peds, target] of
    \* defineStartVariables, [box, obstacles] of findStations called alone
    call,
    \* findStations: the recursion
    fsState, fsDepth, bbox, boundariesInBBox, stationsInBBox,
    \* defineStartVariables: position, files written, locals
    pc, files, gatewayPeds, factors, startPositions, err,
    \* execute: the child process and the polling loop
    exState, process, readLines, published, exResult,
    \* the module globals, the events received and the runs they started
    globals, parameterSet, events, runs

layerVars   == <<bahnStations, busStations, radStations, parkStations, buildings>>
stationVars == <<fsState, fsDepth, bbox, boundariesInBBox, stationsInBBox>>
defineVars  == <<pc, files, gatewayPeds, factors, startPositions, err>>
execVars    == <<exState, process, readLines, published, exResult>>
triggerVars == <<globals, parameterSet, events, runs>>
vars == <<layerVars, call, stationVars, defineVars, execVars, triggerVars>>

----------------------------------------------------------------------------
(* Bounds of the model *)

\* frames findStations may nest before the interpreter raises RecursionError
RecursionLimit == 3
\* most lines the child process writes
MaxLines == 2
\* most events the session delivers
MaxEvents == 3

----------------------------------------------------------------------------
(* Geometry *)

Sq(n) == n * n

\* distance from coordinate v to the interval [lo, hi]
Gap(lo, hi, v) == IF v < lo THEN lo - v ELSE IF v > hi THEN v - hi ELSE 0

\* distance between the intervals [alo, ahi] and [blo, bhi]
GapInterval(alo, ahi, blo, bhi) ==
    IF ahi < blo THEN blo - ahi ELSE IF bhi < alo THEN alo - bhi ELSE 0

\* box(minx, miny, maxx, maxy)
box(minx, miny, maxx, maxy) ==
    [minx |-> minx, miny |-> miny, maxx |-> maxx, maxy |-> maxy, r |-> 0]

\* geom.buffer(d): every point within d of geom
buffer(b, d) == [b EXCEPT !.r = @ + d]

\* shape(feature['geometry']).intersects(bbox) for a point feature
PointIntersects(p, b) ==
    Sq(Gap(b.minx, b.maxx, p.x)) + Sq(Gap(b.miny, b.maxy, p.y)) <= Sq(b.r)

\* shape(building['geometry']).intersects(bbox) for a rectangular polygon
PolygonIntersects(g, b) ==
    Sq(GapInterval(g.minx, g.maxx, b.minx, b.maxx))
      + Sq(GapInterval(g.miny, g.maxy, b.miny, b.maxy)) <= Sq(b.r)

\* shape(station[0]['geometry']).intersects(shape(gebaeude['geometry']))
InBuilding(st, g) ==
    /\ g.minx <= st[1].x /\ st[1].x <= g.maxx
    /\ g.miny <= st[1].y /\ st[1].y <= g.maxy

----------------------------------------------------------------------------
(* defineBorders *)

BorderBuffer == 50

defineBorders(blds, b) ==
    SelectSeq(blds, LAMBDA g : PolygonIntersects(g, buffer(b, BorderBuffer)))

----------------------------------------------------------------------------
(* findStations *)

MinStations == 5
BufferStep == 100

Tagged(layer, tag) == [i \in 1..Len(layer) |-> <<layer[i], tag>>]

\* lines 67-80: the four collection loops, in this order
Collect(b) ==
    Tagged(SelectSeq(bahnStations, LAMBDA f : PointIntersects(f, b)), "Bahn")
    \o Tagged(SelectSeq(busStations, LAMBDA f : PointIntersects(f, b)), "Bus")
    \o Tagged(SelectSeq(radStations, LAMBDA f : PointIntersects(f, b)), "Rad")
    \o Tagged(SelectSeq(parkStations, LAMBDA f : PointIntersects(f, b)), "Auto")

\* list.remove(x): drops the first element equal to x
RECURSIVE ListRemoveFrom(_, _, _)
ListRemoveFrom(list, x, j) ==
    IF j > Len(list) THEN list
    ELSE IF list[j] = x
         THEN SubSeq(list, 1, j - 1) \o SubSeq(list, j + 1, Len(list))
         ELSE ListRemoveFrom(list, x, j + 1)

ListRemove(list, x) == ListRemoveFrom(list, x, 1)

\* lines 83-85: "for station in stationsInBBox" advances an index over the
\* list that the body shrinks, so the element that follows a removed one is
\* never visited
RECURSIVE StationLoop(_, _, _)
StationLoop(list, g, i) ==
    IF i > Len(list) THEN list
    ELSE IF InBuilding(list[i], g)
         THEN StationLoop(ListRemove(list, list[i]), g, i + 1)
         ELSE StationLoop(list, g, i + 1)

\* lines 82-85: one pass of the station loop per building
RECURSIVE BuildingLoop(_, _, _)
BuildingLoop(list, obstacles, n) ==
    IF n > Len(obstacles) THEN list
    ELSE BuildingLoop(StationLoop(list, obstacles[n], 1), obstacles, n + 1)

\* line 87
NeedsExpansionLoose(list) == Len(list) < MinStations - 1

NeedsExpansion(list) == Len(list) < MinStations

\* One activation of findStations (lines 67-90).  A frame that finds enough
\* stations returns its list through all its callers, which return it as it
\* is (lines 88, 90); a frame that does not calls itself with the buffered
\* box and the same lists, unless the interpreter's recursion limit is hit.
findStations ==
    /\ fsState = "running"
    /\ LET found == BuildingLoop(Collect(bbox), boundariesInBBox, 1) IN
         IF ~NeedsExpansion(found)
         THEN /\ fsState' = "returned"
              /\ stationsInBBox' = found
              /\ UNCHANGED <<fsDepth, bbox>>
         ELSE IF fsDepth < RecursionLimit
         THEN /\ fsDepth' = fsDepth + 1
              /\ bbox' = buffer(bbox, BufferStep)
              /\ UNCHANGED <<fsState, stationsInBBox>>
         ELSE /\ fsState' = "RecursionError"
              /\ UNCHANGED <<fsDepth, bbox, stationsInBBox>>
    /\ UNCHANGED boundariesInBBox

----------------------------------------------------------------------------
(* factoring: the weights in percent, as <<bahn, bus, rad, auto>> *)

\* lines 109-142: some Bahn gateway is present
factoringWithBahn(busPeds, radPeds, autoPeds) ==
    IF Len(busPeds) > 0
    THEN IF Len(radPeds) > 0
         THEN IF Len(autoPeds) > 0 THEN <<55, 25, 10, 10>>
                                   ELSE <<60, 30, 10, 0>>
         ELSE IF Len(autoPeds) > 0 THEN <<60, 30, 0, 10>>
                                   ELSE <<70, 30, 0, 0>>
    ELSE IF Len(radPeds) > 0
         THEN IF Len(autoPeds) > 0 THEN <<80, 0, 10, 10>>
                                   ELSE <<90, 0, 10, 0>>
         ELSE IF Len(autoPeds) > 0 THEN <<90, 0, 0, 10>>
                                   ELSE <<100, 0, 0, 0>>

\* the lower half of the tree with the weights of "Rad and Auto only" swapped
factoringWithoutBahnSwapped(busPeds, radPeds, autoPeds) ==
    IF Len(busPeds) > 0
    THEN IF Len(radPeds) > 0
         THEN IF Len(autoPeds) > 0 THEN <<0, 70, 15, 15>>
                                   ELSE <<0, 75, 25, 0>>
         ELSE IF Len(autoPeds) > 0 THEN <<0, 50, 0, 50>>
                                   ELSE <<0, 100, 0, 0>>
    ELSE IF Len(radPeds) > 0
         THEN IF Len(autoPeds) > 0 THEN <<0, 0, 60, 40>>
                                   ELSE <<0, 0, 100, 0>>
         ELSE <<0, 0, 0, 100>>

\* lines 144-167: no Bahn gateway; the last else sets autoFactor without
\* looking at autoPeds
factoringWithoutBahn(busPeds, radPeds, autoPeds) ==
    IF Len(busPeds) > 0
    THEN IF Len(radPeds) > 0
         THEN IF Len(autoPeds) > 0 THEN <<0, 70, 15, 15>>
                                   ELSE <<0, 75, 25, 0>>
         ELSE IF Len(autoPeds) > 0 THEN <<0, 50, 0, 50>>
                                   ELSE <<0, 100, 0, 0>>
    ELSE IF Len(radPeds) > 0
         THEN IF Len(autoPeds) > 0 THEN <<0, 0, 40, 60>>
                                   ELSE <<0, 0, 100, 0>>
         ELSE <<0, 0, 0, 100>>

factoring(bahnPeds, busPeds, radPeds, autoPeds) ==
    IF Len(bahnPeds) > 0
    THEN factoringWithBahn(busPeds, radPeds, autoPeds)
    ELSE factoringWithoutBahn(busPeds, radPeds, autoPeds)

----------------------------------------------------------------------------
(* randomPoint *)

\* 0.3 and 5, in tenths of a metre
MinDistance == 3
Jitter == 50

\* the draws random.uniform may return, as offsets from the gateway
Offsets ==
    {o \in {<<0, 0>>, <<2, 0>>, <<0, 3>>} :
        -Jitter <= o[1] /\ o[1] <= Jitter /\ -Jitter <= o[2] /\ o[2] <= Jitter}

\* shape(geometry) of a gateway, in tenths of a metre
GatewayPoint(geometry) == [x |-> 10 * geometry.x, y |-> 10 * geometry.y]

\* p.distance(a) < 0.3
TooClose(p, a) == Sq(p.x - a.x) + Sq(p.y - a.y) < Sq(MinDistance)

\* randomPoint(point, startPositions) reading its draws from the stream rnd.
\* The candidate p is drawn once (lines 181-183).  The loop of lines 188-193
\* returns p at the first start point that is not too close; for one that is
\* too close it calls randomPoint again, drops what the call returns and goes
\* on to the next start point.  The result is [ok, p, rest]: ok is FALSE when
\* the stream ends before the call does.
RECURSIVE randomPoint(_, _, _), randomPointLoop(_, _, _, _, _)
randomPoint(point, positions, rnd) ==
    IF rnd = <<>>
    THEN [ok |-> FALSE, p |-> point, rest |-> rnd]
    ELSE randomPointLoop(point, positions,
                         [x |-> point.x + Head(rnd)[1], y |-> point.y + Head(rnd)[2]],
                         1, Tail(rnd))

randomPointLoop(point, positions, p, i, rest) ==
    IF i > Len(positions)
    THEN [ok |-> TRUE, p |-> p, rest |-> rest]
    ELSE IF TooClose(p, positions[i])
         THEN LET inner == randomPoint(point, positions, rest) IN
                IF inner.ok
                THEN randomPointLoop(point, positions, p, i + 1, inner.rest)
                ELSE inner
         ELSE [ok |-> TRUE, p |-> p, rest |-> rest]

\* longest stream of draws one call of randomPoint is given
MaxDraws == 2

Streams == UNION {[1..n -> Offsets] : n \in 1..MaxDraws}

----------------------------------------------------------------------------
(* defineStartVariables *)

\* the output files (lines 20, 21, 28 and 364)
boundaries_cut == "data/boundaries_cut.shp"
gateways       == "data/gateways.shp"
gencrowd       == "data/pedestrians.shp"
csvfile        == "data/pedMission.csv"

OutputFiles == {boundaries_cut, gateways, gencrowd, csvfile}

NotWritten == [written |-> FALSE, rows |-> <<>>]
Written(rows) == [written |-> TRUE, rows |-> rows]

\* the Python values a target argument takes: the int 0 of line 36, or the
\* tuple (e, n) of line 397
IntZero == <<"int", 0>>
Tuple(e, n) == <<"tuple", e, n>>

Geometry(feature) == [x |-> feature.x, y |-> feature.y]

\* Point.wkt
wkt(p) == <<"POINT", p.x, p.y>>

\* line 373: '[ POINT (' + str(target[0]) + ' ' + str(target[1]) + ') ]'
TargetMission(target) == << <<"POINT", target[2], target[3]>> >>

\* line 368
CsvHeader == <<"startWKT", "mentalModel", "wktWayPoints">>

\* line 371: the number of waypoints of a random mission
MissionWaypoints == 4

\* lines 317-325: the gateways of one transport, in file order
OfTransport(gatewaysList, transport) ==
    LET sel == SelectSeq(gatewaysList, LAMBDA f : f.transport = transport)
    IN  [i \in 1..Len(sel) |-> sel[i].geometry]

\* the values of random.random(), in percent; every boundary of the tree of
\* factoring is a multiple of 5
XDraws == {5 * n : n \in 0..19}

\* lines 333, 337, 341, 345: the transport the draw x selects
SelectMode(x, f) ==
    IF x < f[1] THEN "Bahn"
    ELSE IF x < f[1] + f[2] THEN "Bus"
    ELSE IF x < f[1] + f[2] + f[3] THEN "Rad"
    ELSE "Auto"

\* lines 248-291: clip the boundaries, write them, load the station layers
\* and enter findStations
clipBoundaries ==
    /\ pc = "borders"
    /\ LET inBox == defineBorders(buildings, call.box) IN
         /\ boundariesInBBox' = inBox
         /\ files' = [files EXCEPT ![boundaries_cut] =
                Written([i \in 1..Len(inBox) |-> [geometry |-> inBox[i], id |-> i - 1]])]
    /\ bbox' = call.box
    /\ fsState' = "running"
    /\ fsDepth' = 0
    /\ pc' = "findStations"
    /\ UNCHANGED <<layerVars, call, stationsInBBox, gatewayPeds, factors,
                   startPositions, err, execVars, triggerVars>>

\* line 291: findStations runs inside defineStartVariables; its
\* RecursionError is not caught and ends the call
searchGateways ==
    /\ pc = "findStations"
    /\ findStations
    /\ IF fsState' = "RecursionError"
       THEN pc' = "aborted" /\ err' = "RecursionError"
       ELSE UNCHANGED <<pc, err>>
    /\ UNCHANGED <<layerVars, call, files, gatewayPeds, factors, startPositions,
                   execVars, triggerVars>>

\* lines 293-329: write the gateways, read them back, group them by
\* transport and compute the factors
writeGateways ==
    /\ pc = "findStations"
    /\ fsState = "returned"
    /\ LET gatewaysList == [i \in 1..Len(stationsInBBox) |->
                              [geometry |-> Geometry(stationsInBBox[i][1]),
                               id |-> i - 1,
                               transport |-> stationsInBBox[i][2]]]
           grouped == [Bahn |-> OfTransport(gatewaysList, "Bahn"),
                       Bus  |-> OfTransport(gatewaysList, "Bus"),
                       Rad  |-> OfTransport(gatewaysList, "Rad"),
                       Auto |-> OfTransport(gatewaysList, "Auto")]
       IN /\ files' = [files EXCEPT ![gateways] = Written(gatewaysList)]
          /\ gatewayPeds' = grouped
          /\ factors' = factoring(grouped.Bahn, grouped.Bus, grouped.Rad, grouped.Auto)
    /\ startPositions' = <<>>
    /\ pc' = "place"
    /\ UNCHANGED <<layerVars, call, stationVars, err, execVars, triggerVars>>

\* lines 331-348: one iteration of the placement loop.  random.randint(0, -1)
\* raises ValueError when the selected transport has no gateway.
placePedestrian ==
    /\ pc = "place"
    /\ Len(startPositions) < call.peds
    /\ \E x \in XDraws :
         LET list == gatewayPeds[SelectMode(x, factors)] IN
           IF list = <<>>
           THEN /\ pc' = "aborted"
                /\ err' = "ValueError"
                /\ UNCHANGED startPositions
           ELSE \E pPos \in 1..Len(list), rnd \in Streams :
                  LET res == randomPoint(GatewayPoint(list[pPos]), startPositions, rnd) IN
                    /\ res.ok
                    /\ startPositions' = Append(startPositions, res.p)
                    /\ UNCHANGED <<pc, err>>
    /\ UNCHANGED <<layerVars, call, stationVars, files, gatewayPeds, factors,
                   execVars, triggerVars>>

\* lines 350-368: after the loop, write the pedestrians and open the mission
\* file with its header
writeCrowd ==
    /\ pc = "place"
    /\ Len(startPositions) >= call.peds
    /\ files' = [files EXCEPT
           ![gencrowd] = Written([i \in 1..Len(startPositions) |->
                                    [geometry |-> startPositions[i], id |-> i - 1]]),
           ![csvfile] = Written(<<CsvHeader>>)]
    /\ pc' = "mission"
    /\ UNCHANGED <<layerVars, call, stationVars, gatewayPeds, factors,
                   startPositions, err, execVars, triggerVars>>

\* line 371 with one waypoint fewer
RandomMissionShort(positions, w) ==
    [k \in 1..(MissionWaypoints - 1) |-> wkt(positions[w[k]])]

\* line 371: w holds the four values of random.randint
RandomMission(positions, w) ==
    [k \in 1..MissionWaypoints |-> wkt(positions[w[k]])]

\* lines 369-375: one row of the mission file; the with block closes the file
\* after the last one
writeMissionRow ==
    /\ pc = "mission"
    /\ LET n == Len(files[csvfile].rows) - 1 IN
         /\ n < Len(startPositions)
         /\ \E generatedMission \in
                 IF call.target = IntZero
                 THEN {RandomMission(startPositions, w) :
                         w \in [1..MissionWaypoints -> 1..Len(startPositions)]}
                 ELSE {TargetMission(call.target)} :
              files' = [files EXCEPT ![csvfile].rows =
                     Append(@, <<wkt(startPositions[n + 1]),
                                 "FollowWayPointsMentalModel", generatedMission>>)]
         /\ pc' = IF n + 1 = Len(startPositions) THEN "done" ELSE "mission"
    /\ UNCHANGED <<layerVars, call, stationVars, gatewayPeds, factors,
                   startPositions, err, execVars, triggerVars>>

----------------------------------------------------------------------------
(* execute *)

\* A line is the sequence of its characters, the newline included; '' is <<>>.
Lines == {<<"L", "{", "}", "\n">>, <<"p", "\n">>}

\* lines 427-428 and 401-402
Command == "java -jar abpedsim.jar data/boundaries_cut.shp data/pedestrians.shp data/pedMission.csv data/networkForGraphN.shp"

LineStringTopic == "<session name for LineString Visualization>"
PointTopic == "<session name for Point Visualization>"

ExitCodes == {0, 1}

RECURSIVE Concat(_)
Concat(lines) == IF lines = <<>> THEN <<>> ELSE Head(lines) \o Concat(Tail(lines))

\* The child process: it writes lines to its stdout, closes it, and exits.
childWrite ==
    /\ exState = "polling"
    /\ ~process.eof
    /\ Len(readLines) + Len(process.stdout) < MaxLines
    /\ \E line \in Lines : process' = [process EXCEPT !.stdout = Append(@, line)]
    /\ UNCHANGED <<exState, readLines, published, exResult>>
    /\ UNCHANGED <<layerVars, call, stationVars, defineVars, triggerVars>>

childClose ==
    /\ exState = "polling"
    /\ ~process.eof
    /\ process' = [process EXCEPT !.eof = TRUE]
    /\ UNCHANGED <<exState, readLines, published, exResult>>
    /\ UNCHANGED <<layerVars, call, stationVars, defineVars, triggerVars>>

childExit ==
    /\ exState = "polling"
    /\ process.eof
    /\ ~process.exited
    /\ \E code \in ExitCodes :
         process' = [process EXCEPT !.exited = TRUE, !.returncode = code]
    /\ UNCHANGED <<exState, readLines, published, exResult>>
    /\ UNCHANGED <<layerVars, call, stationVars, defineVars, triggerVars>>

\* lines 217-226: what one line makes the loop publish; sampled stands for
\* ((time.time() - timeStart) % 0.25) <= 0.01
Publish(nextline, sampled) ==
    IF nextline # <<>> /\ Head(nextline) = "L"
    THEN << <<LineStringTopic, Tail(nextline)>> >>
    ELSE IF sampled THEN << <<PointTopic, nextline>> >> ELSE <<>>

\* line 230: process.communicate()[0] is what is left in the pipe
Communicate(proc, consumed) == Concat(proc.stdout)

\* line 236: no class ProcessException is defined or imported, so evaluating
\* the name raises NameError before anything is constructed
ProcessExceptionDefined == FALSE

Raise(command, code, output) ==
    IF ProcessExceptionDefined
    THEN [kind |-> "ProcessException", args |-> <<command, code, output>>]
    ELSE [kind |-> "NameError", args |-> <<"name 'ProcessException' is not defined">>]

\* lines 233-236
Finish(command, code, output) ==
    IF code = 0
    THEN [kind |-> "return", args |-> <<output>>]
    ELSE Raise(command, code, output)

\* lines 210-236: one iteration of the polling loop.  readline blocks until
\* a line or the end of the stream is there; at the end of the stream it
\* returns ''.  The iteration that sees '' with the process gone leaves the
\* loop and finishes the call.
execute ==
    /\ exState = "polling"
    /\ \/ /\ process.stdout # <<>>
          /\ \E sampled \in BOOLEAN :
               published' = published \o Publish(Head(process.stdout), sampled)
          /\ readLines' = Append(readLines, Head(process.stdout))
          /\ process' = [process EXCEPT !.stdout = Tail(@)]
          /\ UNCHANGED <<exState, exResult>>
       \/ /\ process.stdout = <<>>
          /\ process.eof
          /\ ~process.exited
          /\ \E sampled \in BOOLEAN : published' = published \o Publish(<<>>, sampled)
          /\ Len(published') <= MaxLines + 1
          /\ UNCHANGED <<exState, process, readLines, exResult>>
       \/ /\ process.stdout = <<>>
          /\ process.eof
          /\ process.exited
          /\ exResult' = Finish(Command, process.returncode, Communicate(process, readLines))
          /\ exState' = IF exResult'.kind = "return" THEN "returned" ELSE "raised"
          /\ UNCHANGED <<process, readLines, published>>
    /\ UNCHANGED <<layerVars, call, stationVars, defineVars, triggerVars>>

----------------------------------------------------------------------------
(* The module globals and the two event handlers *)

\* a decimal literal: integer part and thousandths
Dec(i, f) == <<i, f>>

DefaultPeds == 30

\* lines 31-36
Defaults ==
    [bbox_minx |-> Dec(565900, 0), bbox_miny |-> Dec(5933766, 750),
     bbox_maxx |-> Dec(566173, 405), bbox_maxy |-> Dec(5933998, 937),
     peds |-> DefaultPeds, target |-> IntZero]

\* the payloads the session delivers: well-formed extents, counts and types
Extents == {<<Dec(565900, 0), Dec(5933766, 750), Dec(566173, 405), Dec(5933998, 937)>>,
            <<Dec(565000, 0), Dec(5933000, 0), Dec(565500, 0), Dec(5933500, 0)>>}
PedCounts == {10, DefaultPeds}
Types == {0, 1}
Positions == {<<Dec(1112914, 451), Dec(7085238, 525)>>}

\* what a run of defineStartVariables followed by execute comes to
Outcomes == {"finished", "defineStartVariables raised", "execute raised"}

\* lines 393-395: pyproj.transform from epsg:3857 to epsg:25832
Transform(x) == Tuple(<<"easting", x[1], x[2]>>, <<"northing", x[1], x[2]>>)

\* lines 418-423 if the names were declared global
AssignGlobals(g, extend, ped) ==
    [g EXCEPT !.bbox_minx = extend[1], !.bbox_miny = extend[2],
              !.bbox_maxx = extend[3], !.bbox_maxy = extend[4], !.peds = ped]

\* lines 418-423: startSimulation declares only parameterSet global, so the
\* assignments bind locals of the handler and the module globals stay
AssignLocals(g, extend, ped) == g

\* line 399 without the test
AlwaysRun(flag) == TRUE

\* line 399
ParameterIsSet(flag) == flag = TRUE

\* lines 405-432
startSimulation ==
    /\ Len(events) < MaxEvents
    /\ \E extend \in Extents, ped \in PedCounts, type \in Types, outcome \in Outcomes :
         /\ events' = Append(events, [topic |-> "start", extend |-> extend,
                                      ped |-> ped, type |-> type])
         /\ globals' = AssignLocals(globals, extend, ped)
         /\ IF type = 0
            THEN /\ runs' = Append(runs,
                       [event |-> Len(events) + 1,
                        bbox_minx |-> extend[1], bbox_miny |-> extend[2],
                        bbox_maxx |-> extend[3], bbox_maxy |-> extend[4],
                        peds |-> ped, target |-> globals'.target,
                        outcome |-> outcome])
                 /\ UNCHANGED parameterSet
            ELSE /\ parameterSet' = TRUE
                 /\ outcome = "finished"
                 /\ UNCHANGED runs
    /\ UNCHANGED <<layerVars, call, stationVars, defineVars, execVars>>

\* lines 388-403
startSimulationTarget ==
    /\ Len(events) < MaxEvents
    /\ \E x \in Positions, outcome \in Outcomes :
         /\ events' = Append(events, [topic |-> "target", x |-> x])
         /\ IF ParameterIsSet(parameterSet)
            THEN runs' = Append(runs,
                       [event |-> Len(events) + 1,
                        bbox_minx |-> globals.bbox_minx, bbox_miny |-> globals.bbox_miny,
                        bbox_maxx |-> globals.bbox_maxx, bbox_maxy |-> globals.bbox_maxy,
                        peds |-> globals.peds, target |-> Transform(x),
                        outcome |-> outcome])
            ELSE outcome = "finished" /\ UNCHANGED runs
    /\ UNCHANGED <<globals, parameterSet>>
    /\ UNCHANGED <<layerVars, call, stationVars, defineVars, execVars>>

----------------------------------------------------------------------------
(* Inputs *)

\* candidate stations of the four layers, in file order, and candidate
\* buildings; the simulated box is (0, 0, 100, 100)
BahnSites == <<[id |-> 1, x |-> 10, y |-> 10], [id |-> 2, x |-> 15, y |-> 15],
               [id |-> 3, x |-> 50, y |-> 50]>>
BusSites  == <<[id |-> 4, x |-> 60, y |-> 40], [id |-> 5, x |-> 150, y |-> 50]>>
RadSites  == <<[id |-> 6, x |-> 80, y |-> 80], [id |-> 7, x |-> 200, y |-> 200]>>
ParkSites == <<[id |-> 8, x |-> 90, y |-> 10], [id |-> 9, x |-> 300, y |-> 50]>>
SiteIds == 1..9

BuildingSites ==
    <<[id |-> 1, minx |-> 0, miny |-> 0, maxx |-> 20, maxy |-> 20],
      [id |-> 2, minx |-> 140, miny |-> 40, maxx |-> 160, maxy |-> 60],
      [id |-> 3, minx |-> 400, miny |-> 400, maxx |-> 420, maxy |-> 420]>>
BuildingIds == 1..3

InputBox == box(0, 0, 100, 100)

Chosen(sites, ids) == SelectSeq(sites, LAMBDA f : f.id \in ids)

LayersAre(ids, bids) ==
    /\ bahnStations = Chosen(BahnSites, ids)
    /\ busStations = Chosen(BusSites, ids)
    /\ radStations = Chosen(RadSites, ids)
    /\ parkStations = Chosen(ParkSites, ids)
    /\ buildings = Chosen(BuildingSites, bids)

NoCall == [box |-> box(0, 0, 0, 0), peds |-> 0, target |-> IntZero]

StationsIdle ==
    /\ fsState = "idle"
    /\ fsDepth = 0
    /\ bbox = box(0, 0, 0, 0)
    /\ boundariesInBBox = <<>>
    /\ stationsInBBox = <<>>

NoGateways == [Bahn |-> <<>>, Bus |-> <<>>, Rad |-> <<>>, Auto |-> <<>>]

DefineIdle ==
    /\ pc = "idle"
    /\ files = [f \in OutputFiles |-> NotWritten]
    /\ gatewayPeds = NoGateways
    /\ factors = <<0, 0, 0, 0>>
    /\ startPositions = <<>>
    /\ err = "none"

ExecIdle ==
    /\ exState = "idle"
    /\ process = [stdout |-> <<>>, eof |-> FALSE, exited |-> FALSE, returncode |-> 0]
    /\ readLines = <<>>
    /\ published = <<>>
    /\ exResult = [kind |-> "none", args |-> <<>>]

\* lines 31-38: the module as loaded
TriggerInit ==
    /\ globals = Defaults
    /\ parameterSet = FALSE
    /\ events = <<>>
    /\ runs = <<>>

----------------------------------------------------------------------------
(* Spec: one call of defineStartVariables *)

Datasets ==
    {[stations |-> {}, buildings |-> {1, 2, 3}],
     [stations |-> {1, 2, 3, 4, 6, 8}, buildings |-> {1, 2, 3}],
     [stations |-> {3, 4, 6, 8, 9}, buildings |-> {1, 2, 3}],
     [stations |-> {4, 5, 6, 7, 9}, buildings |-> {3}],
     [stations |-> {3, 4, 5, 6, 7}, buildings |-> {1, 2}]}

\* the calls: random missions for one and two pedestrians, missions to the
\* target (500, 500) for up to three
Calls ==
    [box : {InputBox}, peds : {1, 2}, target : {IntZero, Tuple(500, 500)}]
    \cup {[box |-> InputBox, peds |-> 3, target |-> Tuple(500, 500)]}

Init ==
    /\ \E d \in Datasets : LayersAre(d.stations, d.buildings)
    /\ call \in Calls
    /\ StationsIdle
    /\ pc = "borders"
    /\ files = [f \in OutputFiles |-> NotWritten]
    /\ gatewayPeds = NoGateways
    /\ factors = <<0, 0, 0, 0>>
    /\ startPositions = <<>>
    /\ err = "none"
    /\ ExecIdle
    /\ TriggerInit

Next ==
    \/ clipBoundaries
    \/ searchGateways
    \/ writeGateways
    \/ placePedestrian
    \/ writeCrowd
    \/ writeMissionRow

Spec == Init /\ [][Next]_vars

----------------------------------------------------------------------------
(* SpecStations: findStations on every choice of stations and obstacles *)

InitStations ==
    /\ \E ids \in SUBSET SiteIds : LayersAre(ids, BuildingIds)
    /\ \E bids \in SUBSET BuildingIds :
         /\ call = [box |-> InputBox, obstacles |-> Chosen(BuildingSites, bids)]
         /\ boundariesInBBox = call.obstacles
    /\ fsState = "running"
    /\ fsDepth = 0
    /\ bbox = call.box
    /\ stationsInBBox = <<>>
    /\ DefineIdle
    /\ ExecIdle
    /\ TriggerInit

NextStations ==
    /\ findStations
    /\ UNCHANGED <<layerVars, call, defineVars, execVars, triggerVars>>

SpecStations == InitStations /\ [][NextStations]_vars

----------------------------------------------------------------------------
(* SpecFactoring: factoring on every combination of gateway counts *)

\* most gateways of one transport
MaxGateways == 2

GatewayLists == {[i \in 1..n |-> [x |-> 10 * i, y |-> 10]] : n \in 0..MaxGateways}

InitFactoring ==
    /\ LayersAre({}, {})
    /\ call = NoCall
    /\ StationsIdle
    /\ pc = "factoring"
    /\ files = [f \in OutputFiles |-> NotWritten]
    /\ gatewayPeds \in [Bahn : GatewayLists, Bus : GatewayLists,
                        Rad : GatewayLists, Auto : GatewayLists]
    /\ factors = <<0, 0, 0, 0>>
    /\ startPositions = <<>>
    /\ err = "none"
    /\ ExecIdle
    /\ TriggerInit

\* line 327
callFactoring ==
    /\ pc = "factoring"
    /\ factors' = factoring(gatewayPeds.Bahn, gatewayPeds.Bus, gatewayPeds.Rad,
                            gatewayPeds.Auto)
    /\ pc' = "factored"
    /\ UNCHANGED <<layerVars, call, stationVars, files, gatewayPeds, startPositions,
                   err, execVars, triggerVars>>

SpecFactoring == InitFactoring /\ [][callFactoring]_vars

----------------------------------------------------------------------------
(* SpecExec: one call of execute *)

InitExec ==
    /\ LayersAre({}, {})
    /\ call = NoCall
    /\ StationsIdle
    /\ DefineIdle
    /\ exState = "polling"
    /\ process = [stdout |-> <<>>, eof |-> FALSE, exited |-> FALSE, returncode |-> 0]
    /\ readLines = <<>>
    /\ published = <<>>
    /\ exResult = [kind |-> "none", args |-> <<>>]
    /\ TriggerInit

NextExec == childWrite \/ childClose \/ childExit \/ execute

SpecExec == InitExec /\ [][NextExec]_vars

----------------------------------------------------------------------------
(* SpecTrigger: the session delivering start and target events *)

InitTrigger ==
    /\ LayersAre({}, {})
    /\ call = NoCall
    /\ StationsIdle
    /\ DefineIdle
    /\ ExecIdle
    /\ TriggerInit

NextTrigger == startSimulation \/ startSimulationTarget

SpecTrigger == InitTrigger /\ [][NextTrigger]_vars

----------------------------------------------------------------------------
(* The claims *)

\* C1 (checked under Spec): every two distinct entries of startPositions are
\* at distance >= 0.3, that is 3 tenths of a metre, whatever the draws were.
C1_Separation ==
    \A i \in 1..Len(startPositions) : \A j \in 1..Len(startPositions) :
        i < j => Sq(startPositions[i].x - startPositions[j].x)
                   + Sq(startPositions[i].y - startPositions[j].y) >= 9

\* C2 (checked under SpecStations): no element of the list findStations
\* returns intersects a polygon of the obstacle list it was given.
C2_NoGatewayInObstacle ==
    fsState = "returned" =>
        \A i \in 1..Len(stationsInBBox) : \A n \in 1..Len(boundariesInBBox) :
            ~InBuilding(stationsInBBox[i], boundariesInBBox[n])

Count(mode) == Len(gatewayPeds[mode])

\* C3 (checked under SpecFactoring): for every combination of the four
\* counts, all four zero included, the weights sum to 1.0 (100 percent) and a
\* mode whose count is 0 has weight 0.
C3_SumAndZero ==
    pc = "factored" =>
        /\ factors[1] + factors[2] + factors[3] + factors[4] = 100
        /\ Count("Bahn") = 0 => factors[1] = 0
        /\ Count("Bus") = 0 => factors[2] = 0
        /\ Count("Rad") = 0 => factors[3] = 0
        /\ Count("Auto") = 0 => factors[4] = 0

\* the table of the specification, section 4.3: rail, bus, bike, car present
\* (TRUE) or absent, and the four weights in percent
SpecTable ==
    {<<TRUE,  TRUE,  TRUE,  TRUE,  <<55, 25, 10, 10>> >>,
     <<TRUE,  TRUE,  TRUE,  FALSE, <<60, 30, 10, 0>> >>,
     <<TRUE,  TRUE,  FALSE, TRUE,  <<60, 30, 0, 10>> >>,
     <<TRUE,  TRUE,  FALSE, FALSE, <<70, 30, 0, 0>> >>,
     <<TRUE,  FALSE, TRUE,  TRUE,  <<80, 0, 10, 10>> >>,
     <<TRUE,  FALSE, TRUE,  FALSE, <<90, 0, 10, 0>> >>,
     <<TRUE,  FALSE, FALSE, TRUE,  <<90, 0, 0, 10>> >>,
     <<TRUE,  FALSE, FALSE, FALSE, <<100, 0, 0, 0>> >>,
     <<FALSE, TRUE,  TRUE,  TRUE,  <<0, 70, 15, 15>> >>,
     <<FALSE, TRUE,  TRUE,  FALSE, <<0, 75, 25, 0>> >>,
     <<FALSE, TRUE,  FALSE, TRUE,  <<0, 50, 0, 50>> >>,
     <<FALSE, TRUE,  FALSE, FALSE, <<0, 100, 0, 0>> >>,
     <<FALSE, FALSE, TRUE,  TRUE,  <<0, 0, 40, 60>> >>,
     <<FALSE, FALSE, TRUE,  FALSE, <<0, 0, 100, 0>> >>,
     <<FALSE, FALSE, FALSE, TRUE,  <<0, 0, 0, 100>> >>}

\* C4 (checked under SpecFactoring): with at least one mode present the
\* weights are exactly the row of the table that the availability pattern
\* selects, so they depend on nothing but which counts are positive.
C4_DecisionTable ==
    (pc = "factored" /\ \E m \in {"Bahn", "Bus", "Rad", "Auto"} : Count(m) > 0) =>
        /\ Cardinality(SpecTable) = 15
        /\ <<Count("Bahn") > 0, Count("Bus") > 0, Count("Rad") > 0, Count("Auto") > 0,
             factors>> \in SpecTable

\* bike and car only, with more than one gateway each: 40 and 60 percent
C4_Witness ==
    /\ pc = "factored"
    /\ Count("Bahn") = 0 /\ Count("Bus") = 0 /\ Count("Rad") = 2 /\ Count("Auto") = 2
    /\ factors = <<0, 0, 40, 60>>

\* the stations left after obstacle removal when the box of the call is
\* expanded k times by 100 units
AfterExpansions(k) ==
    BuildingLoop(Collect([call.box EXCEPT !.r = 100 * k]), call.obstacles, 1)

EnoughAfter == {k \in 0..RecursionLimit : Len(AfterExpansions(k)) >= 5}

Least(S) == CHOOSE k \in S : \A m \in S : k <= m

C6_NoPartialOutput ==
    pc = "aborted" => \A f \in OutputFiles : ~files[f].written

\* C7 (checked under SpecExec): a non-zero exit status makes execute raise an
\* error carrying the command, the exit code and everything the process
\* wrote, the lines the polling loop read included; status 0 makes it return.
C7_FailureCarriesOutput ==
    exState \in {"returned", "raised"} =>
        IF process.returncode # 0
        THEN /\ exState = "raised"
             /\ exResult = [kind |-> "ProcessException",
                            args |-> <<Command, process.returncode, Concat(readLines)>>]
        ELSE exState = "returned"

MissionRows == Tail(files[csvfile].rows)

\* C8 (checked under Spec): a completed call for N pedestrians has N start
\* points and N mission rows, row i starting at start point i; without a
\* target every row has exactly 4 waypoints, each one of the start points;
\* with a target every row's waypoints are exactly the target.
C8_Missions ==
    pc = "done" =>
        /\ Len(startPositions) = call.peds
        /\ Len(files[gencrowd].rows) = call.peds
        /\ Len(MissionRows) = call.peds
        /\ \A i \in 1..Len(MissionRows) :
             /\ i <= Len(startPositions)
             /\ MissionRows[i][1] = <<"POINT", startPositions[i].x, startPositions[i].y>>
             /\ IF call.target = IntZero
                THEN /\ Len(MissionRows[i][3]) = 4
                     /\ \A k \in 1..Len(MissionRows[i][3]) :
                          \E j \in 1..Len(startPositions) :
                            MissionRows[i][3][k]
                              = <<"POINT", startPositions[j].x, startPositions[j].y>>
                ELSE MissionRows[i][3] = << <<"POINT", call.target[2], call.target[3]>> >>

\* two pedestrians, no target: a row whose waypoints repeat its own start and
\* also name the other start point
C8_Witness ==
    /\ pc = "done"
    /\ call.peds = 2
    /\ call.target = IntZero
    /\ startPositions[1] # startPositions[2]
    /\ MissionRows[1][3] = <<wkt(startPositions[1]), wkt(startPositions[1]),
                             wkt(startPositions[2]), wkt(startPositions[1])>>

RunsOf(i) == {n \in 1..Len(runs) : runs[n].event = i}

IsStart(i) == events[i].topic = "start"

SetsParameter(i) == IsStart(i) /\ events[i].type # 0

\* C9 (checked under SpecTrigger): a start event of type 0 starts one run at
\* once, in random-waypoint mode; a start event of another type starts none
\* and sets parameterSet; a target event starts a run, in target mode, exactly
\* when an earlier start event had a type other than 0.
C9_TriggerProtocol ==
    /\ parameterSet <=> \E j \in 1..Len(events) : SetsParameter(j)
    /\ \A i \in 1..Len(events) :
         IF IsStart(i)
         THEN IF events[i].type = 0
              THEN /\ Cardinality(RunsOf(i)) = 1
                   /\ \A n \in RunsOf(i) : runs[n].target = IntZero
              ELSE RunsOf(i) = {}
         ELSE /\ RunsOf(i) # {} <=> \E j \in 1..(i - 1) : SetsParameter(j)
              /\ Cardinality(RunsOf(i)) <= 1
              /\ \A n \in RunsOf(i) : runs[n].target = Transform(events[i].x)

\* a target event that starts nothing, a start event of type 1, and a target
\* event that starts a run
C9_Witness ==
    /\ Len(events) = 3
    /\ ~IsStart(1) /\ RunsOf(1) = {}
    /\ SetsParameter(2)
    /\ ~IsStart(3) /\ RunsOf(3) # {}

\* C10 (checked under SpecTrigger): the module-level box, count and target
\* keep their defaults; a run started by a target event is called with the
\* default box and the default count 30; a run started by a start event of
\* type 0 is called with the event's own extent and count and with target 0.
C10_Frame ==
    /\ globals = Defaults
    /\ \A n \in 1..Len(runs) :
         IF IsStart(runs[n].event)
         THEN /\ runs[n].target = IntZero
              /\ <<runs[n].bbox_minx, runs[n].bbox_miny, runs[n].bbox_maxx,
                   runs[n].bbox_maxy>> = events[runs[n].event].extend
              /\ runs[n].peds = events[runs[n].event].ped
         ELSE /\ runs[n].bbox_minx = <<565900, 0>>
              /\ runs[n].bbox_miny = <<5933766, 750>>
              /\ runs[n].bbox_maxx = <<566173, 405>>
              /\ runs[n].bbox_maxy = <<5933998, 937>>
              /\ runs[n].peds = 30

\* a start event of type 1 with another extent and count, a target event that
\* runs with the defaults, then a start event of type 0 that runs with target 0
C10_Witness ==
    /\ Len(events) = 3
    /\ SetsParameter(1)
    /\ events[1].ped # 30
    /\ events[1].extend[1] # <<565900, 0>>
    /\ ~IsStart(2) /\ RunsOf(2) # {}
    /\ IsStart(3) /\ events[3].type = 0 /\ RunsOf(3) # {}

====
